---------------------------- MODULE Spec2Model ----------------------------
(***************************************************************************)
(* Model of the transcript studio front end.                               *)
(*                                                                         *)
(*   - the transcripts page (src/app/transcripts/page.tsx): the component  *)
(*     state of TranscriptContent, the page-load effect with its two       *)
(*     parallel requests, fetchSummary, copyToClipboard, downloadAsFile,   *)
(*     formatTime, seekToTime and the render branches;                     *)
(*   - the proxy routes /api/transcript, /api/summary, /api/quiz           *)
(*     (GET handlers), through which every response of the page passes;    *)
(*   - the embedded player, an external window that receives the seek      *)
(*     messages and plays on its own.                                      *)
(*                                                                         *)
(* Conventions.  A nullable value (T | null) is a set with at most one     *)
(* element: None for null, Some(x) for x.  A JSON object is a record.  A   *)
(* time in seconds is the integer number of its milliseconds (1500 stands  *)
(* for 1.5 s), so that the arithmetic of formatTime stays in the integers. *)
(***************************************************************************)
EXTENDS Integers, Sequences, FiniteSets, TLC

(***************************************************************************)
(* Bounds of the model.                                                    *)
(***************************************************************************)
\* page-load fetchData invocations that may be in flight together
MaxInFlight == 2
\* seek messages posted to the player window and not yet handled by it
MaxInbox == 1
\* fetchQuiz invocations that may be in flight together
MaxQuizInFlight == 2

None == {}
Some(x) == {x}
Get(opt) == CHOOSE x \in opt : TRUE

(***************************************************************************)
(* The backend (external collaborator) and what it may answer.             *)
(***************************************************************************)
VideoIds == {"v1", "v2"}

\* TranscriptEntry: text, start, duration (start and duration in ms)
Entry(t, s, d) == [text |-> t, start |-> s, duration |-> d]

\* videos whose transcripts exercise the exports: entries out of start order,
\* no entry at all, a negative start, plain texts, and a zero duration next to
\* a start that has no exact binary representation
ExportVideoIds == {"v3", "v4", "v5", "v6", "v7"}

\* The transcript the backend holds for each video.  "v1" has two entries
\* sharing a start value and an entry overlapping a later one; "v2" has an
\* entry whose start also occurs in "v1".  The sums start + duration of all
\* entries are exact in double arithmetic.
BackendTranscript(v) ==
    CASE v = "v1" ->
            << Entry("a", 0, 2000), Entry("b", 0, 1000), Entry("c", 1000, 1000) >>
      [] v = "v3" -> << Entry("a", 5000, 1000), Entry("b", 2000, 1000) >>
      [] v = "v4" -> << >>
      [] v = "v5" -> << Entry("n", -1500, 1000) >>
      [] v = "v6" -> << Entry("hi", 0, 1000), Entry("there", 1000, 1000) >>
      [] v = "v7" -> << Entry("z", 1500, 0), Entry("f", 4350, 1000) >>
      [] OTHER -> << Entry("d", 1000, 1000) >>

\* TranscriptData, the success body of <backend>/transcript
TranscriptDocument(v) == [video_id |-> v, transcript |-> BackendTranscript(v)]

\* SummaryData bodies the backend answers with status 200
SummaryBody(v) == [summary |-> "summary of " \o v]
TooLongBody == [error |-> "transcript_too_long", message |-> "upgrade"]

\* A backend answer, as the proxy's fetch sees it: the backend cannot be
\* reached (fetch throws), or an HTTP response with a status and a JSON body.
Unreachable == [kind |-> "unreachable"]
Http(status, body) == [kind |-> "http", status |-> status, body |-> body]

BackendErrors == { Http(404, [detail |-> "Video unavailable"]) }

BackendAnswers(route, v) ==
    CASE route = "transcript" ->
            { Http(200, TranscriptDocument(v)) } \cup BackendErrors
      [] route = "summary" ->
            { Http(200, SummaryBody(v)), Http(200, TooLongBody) } \cup BackendErrors

(***************************************************************************)
(* The proxy routes: GET of /api/transcript, /api/summary, /api/quiz.      *)
(* param is the required query parameter (nullable), answer the backend's  *)
(* answer.  The result is the response the browser receives.               *)
(***************************************************************************)
Response(status, body) == [status |-> status, body |-> body]

ParamRequiredMessage(route) ==
    IF route = "quiz" THEN "Video ID is required" ELSE "URL parameter is required"

DefaultErrorMessage(route) ==
    CASE route = "transcript" -> "Failed to fetch transcript"
      [] route = "summary" -> "Failed to fetch summary"
      [] route = "quiz" -> "Failed to fetch quiz"

CatchMessage(route) ==
    IF route = "quiz" THEN "Failed to generate quiz" ELSE "Internal server error"

\* response.ok of the fetch API
Ok(status) == status \in 200..299

\* errorData.detail || <default>
DetailOr(errorData, default) ==
    IF "detail" \in DOMAIN errorData /\ errorData.detail /= ""
    THEN errorData.detail
    ELSE default

\* bodies on which the handler's `await response.json()` or its use of the
\* result throws: a body that is not JSON, and the JSON value null (reading
\* errorData.detail of null throws)
NotJson == [notJson |-> TRUE]
JsonNull == [isNull |-> TRUE]

\* what a handler hands back: a response (above), or an exception that leaves it
Thrown(err) == [thrown |-> err]

\* the handler with the status of every error answer set to 500
GETAfterFetch_status500(route, answer) ==
    IF answer.kind = "unreachable" \/ answer.body = NotJson
    THEN Response(500, [error |-> CatchMessage(route)])
    ELSE IF ~Ok(answer.status)
    THEN IF answer.body = JsonNull
         THEN Response(500, [error |-> CatchMessage(route)])
         ELSE Response(500,
                       [error |-> DetailOr(answer.body, DefaultErrorMessage(route))])
    ELSE Response(200, answer.body)

\* the handler without its try/catch
GETAfterFetch_noCatch(route, answer) ==
    IF answer.kind = "unreachable" THEN Thrown("TypeError: fetch failed")
    ELSE IF answer.body = NotJson THEN Thrown("SyntaxError")
    ELSE IF ~Ok(answer.status)
    THEN IF answer.body = JsonNull
         THEN Thrown("TypeError")
         ELSE Response(answer.status,
                       [error |-> DetailOr(answer.body, DefaultErrorMessage(route))])
    ELSE Response(200, answer.body)

\* the handler from the point where its fetch of the backend has settled
\* (the rest of the try block, and the catch)
GETAfterFetch(route, answer) ==
    IF answer.kind = "unreachable" \/ answer.body = NotJson
    THEN Response(500, [error |-> CatchMessage(route)])
    ELSE IF ~Ok(answer.status)
    THEN IF answer.body = JsonNull
         THEN Response(500, [error |-> CatchMessage(route)])
         ELSE Response(answer.status,
                       [error |-> DetailOr(answer.body, DefaultErrorMessage(route))])
    ELSE Response(200, answer.body)

\* the whole handler, as a function of the request and of the backend's answer
ProxyGET(route, param, answer) ==
    IF param = None \/ param = Some("")
    THEN Response(400, [error |-> ParamRequiredMessage(route)])
    ELSE GETAfterFetch(route, answer)

\* the canonical video URL built by the page for a videoId
WatchUrl(videoId) == "https://www.youtube.com/watch?v=" \o videoId


(***************************************************************************)
(* State of the transcripts page.                                          *)
(***************************************************************************)
VARIABLES
    mounted,            \* the component has rendered and its effect has run
    searchParams,       \* searchParams.get("videoId"), nullable
    transcriptData,     \* useState<TranscriptData | null>(null)
    summaryData,        \* useState<SummaryData | null>(null)
    isLoading,          \* useState(true)
    isSummaryLoading,   \* useState(false)
    error,              \* useState<string | null>(null)
    activeTimestamp,    \* useState<number | null>(null)
    includeTimestamps,  \* useState(true)
    summaryError,       \* useState<string | null>(null)
    loads,              \* the fetchData invocations in flight, oldest first
    summaryCall,        \* the fetchSummary invocation in flight, nullable
    seekCalls,          \* the calls made by the latest seekToTime, in order
    inbox,              \* seek messages posted to the player, not yet handled
    playerTime,         \* playback position of the embedded player
    exported,           \* what the page last handed to the browser: the text
                        \* written to the clipboard or the file offered for
                        \* download, nullable
    \* a proxy route handling a request (GET of /api/<route>)
    proxyRequest,       \* the request being handled or handled last, nullable
    proxyAwaiting,      \* the handler is suspended in `await fetch(<backend>)`
    backendRequests,    \* the URLs the handler has requested from the backend
    backendAnswer,      \* what its fetch of the backend gave, nullable
    proxyReturned,      \* what the handler has returned or thrown, in order
    \* the home page (component Home)
    url,                \* useState("")
    homeIsLoading,      \* useState(false), isLoading of Home
    homeError,          \* useState<string | null>(null), error of Home
    formEvent,          \* the submit event the form handler got last, nullable
    homeFetch,          \* the fetch of /api/transcript in flight, nullable
    pushed,             \* the URL given to router.push, nullable
    \* the quiz widget (component Quiz)
    showQuiz,           \* useState(false)
    questions,          \* useState<QuizQuestion[]>([]); None when undefined
    currentQuestion,    \* useState(0), index from 0
    selectedAnswer,     \* useState<number | null>(null)
    score,              \* useState(0)
    quizCompleted,      \* useState(false)
    quizIsLoading,      \* useState(false), isLoading of Quiz
    quizFetches,        \* number of fetches of /api/quiz in flight
    \* the time codec at work on one value
    encoded             \* the time last encoded with its two encodings, nullable

pageState == << transcriptData, summaryData, isLoading, isSummaryLoading,
                error, activeTimestamp, includeTimestamps, summaryError >>
requests == << loads, summaryCall >>
player == << inbox, playerTime >>
page == << mounted, searchParams, pageState, requests, seekCalls, player, exported >>
proxy == << proxyRequest, proxyAwaiting, backendRequests, backendAnswer,
           proxyReturned >>
home == << url, homeIsLoading, homeError, formEvent, homeFetch, pushed >>
quiz == << showQuiz, questions, currentQuestion, selectedAnswer, score,
          quizCompleted, quizIsLoading, quizFetches >>
\* the state outside the transcripts page, the proxy routes, the home page
\* and the quiz widget
offPage == << proxy, home, quiz, encoded >>
offProxy == << page, home, quiz, encoded >>
offHome == << page, proxy, quiz, encoded >>
offQuiz == << page, proxy, home, encoded >>
offCodec == << page, proxy, home, quiz >>
vars == << page, offPage >>

(***************************************************************************)
(* A request of the browser: pending, rejected (transport failure, fetch   *)
(* throws) or resolved with the response of the proxy route.               *)
(***************************************************************************)
Pending == [st |-> "pending"]
Rejected == [st |-> "rejected"]
Resolved(response) ==
    [st |-> "resolved", status |-> response.status, body |-> response.body]

\* err.message of the TypeError a failed fetch throws
NetworkErrorMessage == "Failed to fetch"

\* what the browser may get from GET /api/<route>?url=<watch url of v>
Outcomes(route, v) ==
    { Rejected } \cup
    { Resolved(ProxyGET(route, Some(WatchUrl(v)), a)) : a \in BackendAnswers(route, v) }

Init ==
    /\ mounted = FALSE
    /\ searchParams = None
    /\ transcriptData = None
    /\ summaryData = None
    /\ isLoading = TRUE
    /\ isSummaryLoading = FALSE
    /\ error = None
    /\ activeTimestamp = None
    /\ includeTimestamps = TRUE
    /\ summaryError = None
    /\ loads = << >>
    /\ summaryCall = None
    /\ seekCalls = << >>
    /\ inbox = << >>
    /\ playerTime = 0
    /\ exported = None
    /\ proxyRequest = None
    /\ proxyAwaiting = FALSE
    /\ backendRequests = << >>
    /\ backendAnswer = None
    /\ proxyReturned = << >>
    /\ url = ""
    /\ homeIsLoading = FALSE
    /\ homeError = None
    /\ formEvent = None
    /\ homeFetch = None
    /\ pushed = None
    /\ showQuiz = FALSE
    /\ questions = Some(<< >>)
    /\ currentQuestion = 0
    /\ selectedAnswer = None
    /\ score = 0
    /\ quizCompleted = FALSE
    /\ quizIsLoading = FALSE
    /\ quizFetches = 0
    /\ encoded = None

(***************************************************************************)
(* The render branches of TranscriptContent.  The main view reads          *)
(* transcriptData.transcript.length and maps over transcriptData.transcript*)
(* so a stored body without a transcript field throws while rendering.     *)
(***************************************************************************)
Truthy(opt) == opt /= None /\ opt /= Some("")

View ==
    IF isLoading THEN "loading"
    ELSE IF Truthy(error) THEN "error"
    ELSE IF transcriptData = None THEN "noContent"
    ELSE IF "transcript" \notin DOMAIN Get(transcriptData) THEN "crash"
    ELSE "main"

\* the render threw: the component is unmounted and its handlers are gone
Crashed == View = "crash"

(***************************************************************************)
(* The page-load effect: useEffect(..., [searchParams]).  It runs after    *)
(* the first render and again whenever the search params change.  Nothing  *)
(* of an earlier run is cancelled, and neither isLoading nor error is      *)
(* reset by a new run.                                                     *)
(***************************************************************************)
NewLoad(videoId) ==
    [videoId |-> videoId, transcript |-> Pending, summary |-> Pending]

UseEffect(p) ==
    /\ ~Crashed
    /\ ~mounted \/ p /= searchParams
    /\ mounted' = TRUE
    /\ searchParams' = p
    /\ IF ~Truthy(p)
       THEN /\ error' = Some("No video ID provided")
            /\ isLoading' = FALSE
            /\ UNCHANGED loads
       ELSE /\ Len(loads) < MaxInFlight
            /\ loads' = Append(loads, NewLoad(Get(p)))
            /\ UNCHANGED << error, isLoading >>
    /\ UNCHANGED << transcriptData, summaryData, isSummaryLoading,
                    activeTimestamp, includeTimestamps, summaryError >>
    /\ UNCHANGED << summaryCall, seekCalls, player, exported >>
    /\ UNCHANGED offPage

(***************************************************************************)
(* fetchData.  Promise.all rejects as soon as one of the two fetches       *)
(* rejects and resolves when both have resolved; FetchDataSettled is what  *)
(* fetchData does from there on (lines 69-78).  Neither response.ok nor    *)
(* the status is looked at: both bodies are stored as they are.            *)
(***************************************************************************)
\* fetchData as it would be with a cancellation flag set by the effect's
\* cleanup: a superseded invocation returns without touching the state
FetchDataSettled_cancelled(load) ==
    IF Some(load.videoId) /= searchParams
    THEN UNCHANGED pageState
    ELSE /\ IF load.transcript = Rejected \/ load.summary = Rejected
            THEN /\ error' = Some(NetworkErrorMessage)
                 /\ UNCHANGED << transcriptData, summaryData >>
            ELSE /\ transcriptData' = Some(load.transcript.body)
                 /\ summaryData' = Some(load.summary.body)
                 /\ UNCHANGED error
         /\ isLoading' = FALSE
         /\ UNCHANGED << isSummaryLoading, activeTimestamp, includeTimestamps,
                         summaryError >>

FetchDataSettled(load) ==
    /\ IF load.transcript = Rejected \/ load.summary = Rejected
       THEN /\ error' = Some(NetworkErrorMessage)
            /\ UNCHANGED << transcriptData, summaryData >>
       ELSE /\ transcriptData' = Some(load.transcript.body)
            /\ summaryData' = Some(load.summary.body)
            /\ UNCHANGED error
    /\ isLoading' = FALSE
    /\ UNCHANGED << isSummaryLoading, activeTimestamp, includeTimestamps,
                    summaryError >>

Other(route) == IF route = "transcript" THEN "summary" ELSE "transcript"

Remove(seq, i) == SubSeq(seq, 1, i - 1) \o SubSeq(seq, i + 1, Len(seq))

\* One of the two fetches of the i-th fetchData in flight settles.
FetchSettles(i, route, outcome) ==
    /\ ~Crashed
    /\ i \in DOMAIN loads
    /\ loads[i][route] = Pending
    /\ outcome \in Outcomes(route, loads[i].videoId)
    /\ LET load == [loads[i] EXCEPT ![route] = outcome]
           both == load[Other(route)] /= Pending
       IN  /\ loads' = IF both THEN Remove(loads, i)
                               ELSE [loads EXCEPT ![i] = load]
           /\ IF load[Other(route)] = Rejected
              THEN UNCHANGED pageState     \* Promise.all has rejected already
              ELSE IF outcome = Rejected \/ both
              THEN FetchDataSettled(load)
              ELSE UNCHANGED pageState     \* Promise.all still waits
    /\ UNCHANGED << mounted, searchParams, summaryCall, seekCalls, player, exported >>
    /\ UNCHANGED offPage

(***************************************************************************)
(* fetchSummary, started by Generate Summary / Try Again / Regenerate.     *)
(***************************************************************************)
HasSummary ==
    /\ summaryData /= None
    /\ "summary" \in DOMAIN Get(summaryData)
    /\ Get(summaryData).summary /= ""

TooLong ==
    /\ summaryData /= None
    /\ "error" \in DOMAIN Get(summaryData)
    /\ Get(summaryData).error = "transcript_too_long"

\* some button that calls fetchSummary is rendered
SummaryButtonShown ==
    /\ View = "main"
    /\ ~isSummaryLoading
    /\ ~HasSummary \/ Truthy(summaryError) \/ ~TooLong

\* transcriptData?.video_id || ""
VideoIdOrEmpty ==
    IF transcriptData /= None /\ "video_id" \in DOMAIN Get(transcriptData)
    THEN Get(transcriptData).video_id
    ELSE ""

FetchSummaryStart ==
    /\ SummaryButtonShown
    /\ isSummaryLoading' = TRUE
    /\ summaryError' = None
    /\ summaryCall' = Some([videoId |-> VideoIdOrEmpty])
    /\ UNCHANGED << transcriptData, summaryData, isLoading, error,
                    activeTimestamp, includeTimestamps >>
    /\ UNCHANGED << mounted, searchParams, loads, seekCalls, player, exported >>
    /\ UNCHANGED offPage

FetchSummarySettled(outcome) ==
    /\ IF outcome = Rejected
       THEN /\ summaryError' = Some(NetworkErrorMessage)
            /\ UNCHANGED summaryData
       ELSE /\ summaryData' = Some(outcome.body)
            /\ UNCHANGED summaryError
    /\ isSummaryLoading' = FALSE
    /\ UNCHANGED << transcriptData, isLoading, error, activeTimestamp,
                    includeTimestamps >>

FetchSummarySettles(outcome) ==
    /\ ~Crashed
    /\ summaryCall /= None
    /\ outcome \in Outcomes("summary", Get(summaryCall).videoId)
    /\ FetchSummarySettled(outcome)
    /\ summaryCall' = None
    /\ UNCHANGED << mounted, searchParams, loads, seekCalls, player, exported >>
    /\ UNCHANGED offPage

(***************************************************************************)
(* seekToTime, the onClick of a transcript entry, and the highlight rule.  *)
(* document.querySelector("iframe") and iframe.contentWindow belong to the *)
(* browser: dom says what they yield when the handler runs.                *)
(***************************************************************************)
Doms == { "noIframe", "noContentWindow", "window" }

SeekMessage(seconds) ==
    [event |-> "command", func |-> "seekTo", args |-> << seconds, TRUE >>]

Call(name, arg) == [call |-> name, arg |-> arg]

\* seekToTime written in the order "seek, then highlight"
seekToTime_seekFirst(seconds, dom) ==
    ( IF dom = "window"
      THEN << Call("postMessage", SeekMessage(seconds)) >>
      ELSE << >> )
    \o << Call("setActiveTimestamp", seconds) >>

\* seekToTime with the highlight update inside the `if (iframe)` branch
seekToTime_needsWindow(seconds, dom) ==
    IF dom = "window"
    THEN << Call("setActiveTimestamp", seconds),
            Call("postMessage", SeekMessage(seconds)) >>
    ELSE << >>

\* the calls of seekToTime(seconds), in program order
seekToTime(seconds, dom) ==
    << Call("setActiveTimestamp", seconds) >> \o
    ( IF dom = "window"
      THEN << Call("postMessage", SeekMessage(seconds)) >>
      ELSE << >> )

\* the state a sequence of setActiveTimestamp calls leaves (the last one wins)
RECURSIVE ActiveAfter(_, _)
ActiveAfter(calls, active) ==
    IF calls = << >> THEN active
    ELSE ActiveAfter(Tail(calls),
                     IF Head(calls).call = "setActiveTimestamp"
                     THEN Some(Head(calls).arg)
                     ELSE active)

\* the messages a sequence of calls posts, in order
RECURSIVE Posted(_)
Posted(calls) ==
    IF calls = << >> THEN << >>
    ELSE ( IF Head(calls).call = "postMessage" THEN << Head(calls).arg >> ELSE << >> )
         \o Posted(Tail(calls))

Entries == IF View = "main" THEN Get(transcriptData).transcript ELSE << >>

\* the highlight rule as a range match on the caption's time span
isActive_range(entry) ==
    /\ activeTimestamp /= None
    /\ entry.start <= Get(activeTimestamp)
    /\ Get(activeTimestamp) < entry.start + entry.duration

\* activeTimestamp === entry.start
isActive(entry) == activeTimestamp = Some(entry.start)

SeekToTime(i, dom) ==
    /\ View = "main"
    /\ i \in DOMAIN Entries
    /\ LET calls == seekToTime(Entries[i].start, dom)
       IN  /\ Len(inbox) + Len(Posted(calls)) <= MaxInbox
           /\ seekCalls' = calls
           /\ activeTimestamp' = ActiveAfter(calls, activeTimestamp)
           /\ inbox' = inbox \o Posted(calls)
    /\ UNCHANGED << transcriptData, summaryData, isLoading, isSummaryLoading,
                    error, includeTimestamps, summaryError >>
    /\ UNCHANGED << mounted, searchParams, requests, playerTime, exported >>
    /\ UNCHANGED offPage

(***************************************************************************)
(* The embedded player.  It handles a posted message or ignores it, and    *)
(* its playback position moves on by itself; the page listens to nothing   *)
(* the player sends.                                                       *)
(***************************************************************************)
PlayerTimes == { 0, 1000 }

PlayerHandles(obeys) ==
    /\ inbox /= << >>
    /\ inbox' = Tail(inbox)
    /\ playerTime' = IF obeys THEN Head(inbox).args[1] ELSE playerTime
    /\ UNCHANGED << mounted, searchParams, pageState, requests, seekCalls, exported >>
    /\ UNCHANGED offPage

\* a page that listens to the player and moves the highlight with it
PlayerProgress_syncsHighlight(t) ==
    /\ View = "main"
    /\ t \in PlayerTimes
    /\ t > playerTime
    /\ playerTime' = t
    /\ activeTimestamp' = Some(t)
    /\ UNCHANGED << transcriptData, summaryData, isLoading, isSummaryLoading,
                    error, includeTimestamps, summaryError >>
    /\ UNCHANGED << mounted, searchParams, requests, seekCalls, inbox, exported >>
    /\ UNCHANGED offPage

PlayerProgress(t) ==
    /\ View = "main"
    /\ t \in PlayerTimes
    /\ t > playerTime
    /\ playerTime' = t
    /\ UNCHANGED << mounted, searchParams, pageState, requests, seekCalls, inbox,
                    exported >>
    /\ UNCHANGED offPage

(***************************************************************************)
(* formatTime and the exports.                                             *)
(***************************************************************************)
\* a % b of JavaScript: the remainder takes the sign of the dividend
JsRem(a, b) == IF a >= 0 THEN a % b ELSE -((-a) % b)

RECURSIVE padStart(_, _, _)
padStart(str, n, fill) ==
    IF Len(str) >= n THEN str ELSE padStart(fill \o str, n, fill)

(***************************************************************************)
(* The arithmetic of formatTime is done on IEEE 754 doubles.  For a time   *)
(* of ms milliseconds the argument is the double nearest to ms/1000.       *)
(* seconds / 3600, seconds % 3600, seconds % 60 and their floors come out  *)
(* exact at this granularity; (seconds % 1) * 1000 does not.  seconds % 1  *)
(* is exact on the double, so it carries the representation error of       *)
(* ms/1000: with E = floor(log2(seconds)) the mantissa is ms * 2^(52-E) /  *)
(* 1000 rounded to an integer, r is the remainder of that division, and    *)
(* when the mantissa was rounded down (0 < r < 500) the product is         *)
(* m - r * 2^(E-52) for m = ms mod 1000.  The product is rounded to the    *)
(* nearest double again: it reaches m when r * 2^(E-52) is at most half    *)
(* the gap between m and the double below it, else it stays below m and    *)
(* Math.floor yields m - 1.                                                *)
(***************************************************************************)
RECURSIVE FloorLog2(_)
FloorLog2(n) == IF n < 2 THEN 0 ELSE 1 + FloorLog2(n \div 2)

RECURSIVE PowMod(_, _, _)
PowMod(b, e, n) == IF e = 0 THEN 1 % n ELSE (b * PowMod(b, e - 1, n)) % n

\* Math.floor((seconds % 1) * 1000), for ms >= 0
FloatMillis(ms) ==
    LET m == ms % 1000
        E == FloorLog2(ms \div 1000)
        r == (m * PowMod(2, 52 - E, 1000)) % 1000
        j == FloorLog2(m)
        \* r * 2^(E-52) against half the gap below m, as r * 2^d against 1
        d == E - j + (IF m = 2^j THEN 2 ELSE 1)
        staysBelow == IF d > 0 THEN TRUE
                      ELSE IF d = 0 THEN r > 1
                      ELSE r > 2^(-d)
    IN  IF ms < 1000 \/ m = 0 \/ r = 0 \/ r >= 500 THEN m
        ELSE IF staysBelow THEN m - 1
        ELSE m

\* formatTime with the minutes taken from the whole time
formatTime_minutesNotWrapped(ms) ==
    LET hours == ms \div 3600000
        minutes == ms \div 60000
        secs == JsRem(ms, 60000) \div 1000
        millis == IF ms >= 0 THEN FloatMillis(ms) ELSE JsRem(ms, 1000)
    IN  padStart(ToString(hours), 2, "0") \o ":" \o
        padStart(ToString(minutes), 2, "0") \o ":" \o
        padStart(ToString(secs), 2, "0") \o "," \o
        padStart(ToString(millis), 3, "0")

\* formatTime does not look at the sign of its argument.  Math.floor rounds
\* towards minus infinity and % keeps the sign of the dividend, so every
\* field of a negative time is negative; the millis of a negative time are
\* given for times whose fraction is exact in binary (whole and half
\* seconds), where (seconds % 1) * 1000 is exact.
formatTime(ms) ==
    LET hours == ms \div 3600000
        minutes == JsRem(ms, 3600000) \div 60000
        secs == JsRem(ms, 60000) \div 1000
        millis == IF ms >= 0 THEN FloatMillis(ms) ELSE JsRem(ms, 1000)
    IN  padStart(ToString(hours), 2, "0") \o ":" \o
        padStart(ToString(minutes), 2, "0") \o ":" \o
        padStart(ToString(secs), 2, "0") \o "," \o
        padStart(ToString(millis), 3, "0")

\* Number.prototype.toFixed(0) of x >= 0 given in ms: the nearest integer,
\* the larger one when two are equally near
toFixed0(ms) == ToString((ms + 500) \div 1000)

\* the label of an entry on the screen:
\* {Math.floor(entry.start / 60)}:{(entry.start % 60).toFixed(0).padStart(2, "0")}
DisplayLabel(ms) ==
    ToString(ms \div 60000) \o ":" \o padStart(toFixed0(JsRem(ms, 60000)), 2, "0")

RECURSIVE join(_, _)
join(strs, sep) ==
    IF strs = << >> THEN ""
    ELSE IF Len(strs) = 1 THEN strs[1]
    ELSE strs[1] \o sep \o join(Tail(strs), sep)

\* the clipboard text with one entry per line
ClipboardText_newlines(transcript) ==
    join([i \in DOMAIN transcript |-> transcript[i].text], "\n")

ClipboardText(transcript) ==
    join([i \in DOMAIN transcript |-> transcript[i].text], " ")

\* the line of the TXT export with the on-screen label as its timestamp
TxtLine_displayStyle(entry, withTimestamps) ==
    IF withTimestamps
    THEN "[" \o DisplayLabel(entry.start) \o "] " \o entry.text
    ELSE entry.text

TxtLine(entry, withTimestamps) ==
    IF withTimestamps
    THEN "[" \o formatTime(entry.start) \o "] " \o entry.text
    ELSE entry.text

\* SrtBlock numbering its blocks from 0
SrtBlock_indexFromZero(entry, index) ==
    ToString(index) \o "\n" \o
    formatTime(entry.start) \o " --> " \o
    formatTime(entry.start + entry.duration) \o "\n" \o
    entry.text \o "\n"

\* SrtBlock taking the duration of the entry for the end of its time line
SrtBlock_endIsDuration(entry, index) ==
    ToString(index + 1) \o "\n" \o
    formatTime(entry.start) \o " --> " \o
    formatTime(entry.duration) \o "\n" \o
    entry.text \o "\n"

SrtBlock(entry, index) ==
    ToString(index + 1) \o "\n" \o
    formatTime(entry.start) \o " --> " \o
    formatTime(entry.start + entry.duration) \o "\n" \o
    entry.text \o "\n"

\* the file content with a newline after the last line
FileContent_endsWithNewline(transcript, format, withTimestamps) ==
    ( IF format = "txt"
      THEN join([i \in DOMAIN transcript |-> TxtLine(transcript[i], withTimestamps)], "\n")
      ELSE join([i \in DOMAIN transcript |-> SrtBlock(transcript[i], i - 1)], "\n") )
    \o "\n"

FileContent(transcript, format, withTimestamps) ==
    IF format = "txt"
    THEN join([i \in DOMAIN transcript |-> TxtLine(transcript[i], withTimestamps)], "\n")
    ELSE join([i \in DOMAIN transcript |-> SrtBlock(transcript[i], i - 1)], "\n")

copyToClipboard ==
    /\ View = "main"
    /\ exported' = Some([ channel |-> "clipboard",
                           text |-> ClipboardText(Entries) ])
    /\ UNCHANGED << mounted, searchParams, pageState, requests, seekCalls, player >>
    /\ UNCHANGED offPage

downloadAsFile(format) ==
    /\ View = "main"
    /\ exported' =
          Some([ channel |-> "download",
                 filename |-> "transcript_" \o VideoIdOrEmpty \o "." \o format,
                 type |-> "text/plain",
                 content |-> FileContent(Entries, format, includeTimestamps) ])
    /\ UNCHANGED << mounted, searchParams, pageState, requests, seekCalls, player >>
    /\ UNCHANGED offPage

\* onClick={() => setIncludeTimestamps(!includeTimestamps)}
ToggleTimestamps ==
    /\ View = "main"
    /\ includeTimestamps' = ~includeTimestamps
    /\ UNCHANGED << transcriptData, summaryData, isLoading, isSummaryLoading,
                    error, activeTimestamp, summaryError >>
    /\ UNCHANGED << mounted, searchParams, requests, seekCalls, player, exported >>
    /\ UNCHANGED offPage

(***************************************************************************)
(* A proxy route at work.  GET is the handler up to its `await fetch` of   *)
(* the backend: it answers 400 at once when the required query parameter   *)
(* is missing or empty, else it sends one request to the backend and       *)
(* waits.  GETResumes is the handler from there to its return.             *)
(***************************************************************************)
BACKEND_URL == "http://localhost:8000"

\* the URL the handler fetches; the quiz route composes the watch URL itself
BackendUrl(route, param) ==
    BACKEND_URL \o "/" \o route \o "?url=" \o
    ( IF route = "quiz" THEN WatchUrl(param) ELSE param )

\* `${param}` in a template string
Template(param) == IF param = None THEN "null" ELSE Get(param)

\* the handler with the parameter test after the backend request
GET_fetchFirst(route, param) ==
    /\ ~proxyAwaiting
    /\ proxyRequest' = Some([route |-> route, param |-> param])
    /\ backendAnswer' = None
    /\ proxyReturned' = << >>
    /\ backendRequests' = << BackendUrl(route, Template(param)) >>
    /\ proxyAwaiting' = TRUE
    /\ UNCHANGED offProxy

GET(route, param) ==
    /\ ~proxyAwaiting
    /\ proxyRequest' = Some([route |-> route, param |-> param])
    /\ backendAnswer' = None
    /\ IF param = None \/ param = Some("")
       THEN /\ proxyReturned' = << Response(400, [error |-> ParamRequiredMessage(route)]) >>
            /\ backendRequests' = << >>
            /\ proxyAwaiting' = FALSE
       ELSE /\ proxyReturned' = << >>
            /\ backendRequests' = << BackendUrl(route, Template(param)) >>
            /\ proxyAwaiting' = TRUE
    /\ UNCHANGED offProxy

GETResumes(answer) ==
    /\ proxyAwaiting
    /\ backendAnswer' = Some(answer)
    /\ proxyReturned' =
          Append(proxyReturned,
                 ProxyGET(Get(proxyRequest).route, Get(proxyRequest).param, answer))
    /\ proxyAwaiting' = FALSE
    /\ UNCHANGED << proxyRequest, backendRequests >>
    /\ UNCHANGED offProxy

\* the requests a proxy route may receive and the answers of the backend
ProxyRoutes == { "transcript", "summary", "quiz" }
ProxyParams == { None, Some(""), Some("v1"), Some("v2") }
BackendStatuses == { 200, 201, 404, 500 }
BackendBodies ==
    { [detail |-> "Video unavailable"], [detail |-> ""], [data |-> "payload"],
      NotJson, JsonNull }
AnyBackendAnswer ==
    { Unreachable } \cup { Http(st, b) : st \in BackendStatuses, b \in BackendBodies }

(***************************************************************************)
(* SpecProxy: the three proxy routes, one request at a time, for every     *)
(* request and every answer of the backend.                                *)
(***************************************************************************)
NextProxy ==
    \/ \E route \in ProxyRoutes, param \in ProxyParams : GET(route, param)
    \/ \E answer \in AnyBackendAnswer : GETResumes(answer)

SpecProxy == Init /\ [][NextProxy]_vars

(***************************************************************************)
(* The home page: the URL form of Home.  handleGetTranscript (and its twin *)
(* handleDownload of the second version of the page) is the onSubmit of    *)
(* the form; its submit button is disabled while isLoading.  router.push   *)
(* replaces the home page by the transcripts page.                         *)
(***************************************************************************)
IsSpace(c) == c \in { " ", "\t", "\n" }

\* String.prototype.trim
RECURSIVE trim(_)
trim(str) ==
    IF str = "" THEN ""
    ELSE IF IsSpace(SubSeq(str, 1, 1)) THEN trim(SubSeq(str, 2, Len(str)))
    ELSE IF IsSpace(SubSeq(str, Len(str), Len(str)))
    THEN trim(SubSeq(str, 1, Len(str) - 1))
    ELSE str

\* what the user may type into the field
UrlInputs == { "", " ", "\t ", "https://youtu.be/v1", " https://youtu.be/v2 " }

\* onChange={(e) => setUrl(e.target.value)}
setUrl(value) ==
    /\ pushed = None
    /\ value /= url
    /\ url' = value
    /\ UNCHANGED << homeIsLoading, homeError, formEvent, homeFetch, pushed >>
    /\ UNCHANGED offHome

\* the handler testing `!url` in place of `!url.trim()`
handleGetTranscript_noTrim ==
    /\ pushed = None
    /\ ~homeIsLoading
    /\ formEvent' = Some([type |-> "submit", defaultPrevented |-> TRUE])
    /\ IF url = ""
       THEN UNCHANGED << url, homeIsLoading, homeError, homeFetch, pushed >>
       ELSE /\ homeIsLoading' = TRUE
            /\ homeError' = None
            /\ homeFetch' = Some([url |-> url])
            /\ UNCHANGED << url, pushed >>
    /\ UNCHANGED offHome

\* handleGetTranscript up to its `await fetch`
handleGetTranscript ==
    /\ pushed = None
    /\ ~homeIsLoading
    /\ formEvent' = Some([type |-> "submit", defaultPrevented |-> TRUE])
    /\ IF trim(url) = ""
       THEN UNCHANGED << url, homeIsLoading, homeError, homeFetch, pushed >>
       ELSE /\ homeIsLoading' = TRUE
            /\ homeError' = None
            /\ homeFetch' = Some([url |-> url])
            /\ UNCHANGED << url, pushed >>
    /\ UNCHANGED offHome

\* `${data.video_id}` of the response body
VideoIdOf(data) == IF "video_id" \in DOMAIN data THEN data.video_id ELSE "undefined"

\* errorData.error || "Failed to fetch transcript"
ErrorOr(errorData, default) ==
    IF "error" \in DOMAIN errorData /\ errorData.error /= ""
    THEN errorData.error
    ELSE default

TranscriptsUrl(videoId) == "/transcripts?videoId=" \o videoId

\* the handler without its test of response.ok
HomeFetchSettled_noOkTest(outcome) ==
    /\ IF outcome = Rejected
       THEN /\ homeError' = Some(NetworkErrorMessage)
            /\ UNCHANGED pushed
       ELSE /\ pushed' = Some(TranscriptsUrl(VideoIdOf(outcome.body)))
            /\ UNCHANGED homeError
    /\ homeIsLoading' = FALSE

\* handleGetTranscript from the point where its fetch has settled
HomeFetchSettled(outcome) ==
    /\ IF outcome = Rejected
       THEN /\ homeError' = Some(NetworkErrorMessage)
            /\ UNCHANGED pushed
       ELSE IF ~Ok(outcome.status)
       THEN /\ homeError' = Some(ErrorOr(outcome.body, "Failed to fetch transcript"))
            /\ UNCHANGED pushed
       ELSE /\ pushed' = Some(TranscriptsUrl(VideoIdOf(outcome.body)))
            /\ UNCHANGED homeError
    /\ homeIsLoading' = FALSE

\* what the backend may answer for a URL the user typed
HomeBackendAnswers ==
    { Unreachable, Http(500, [message |-> "no detail"]) }
    \cup { Http(200, TranscriptDocument(v)) : v \in VideoIds }
    \cup BackendErrors

\* what the browser may get from GET /api/transcript?url=<u>
HomeOutcomes(u) ==
    { Rejected } \cup
    { Resolved(ProxyGET("transcript", Some(u), a)) : a \in HomeBackendAnswers }

HomeFetchSettles(outcome) ==
    /\ homeFetch /= None
    /\ outcome \in HomeOutcomes(Get(homeFetch).url)
    /\ HomeFetchSettled(outcome)
    /\ homeFetch' = None
    /\ UNCHANGED << url, formEvent >>
    /\ UNCHANGED offHome

AllHomeOutcomes == UNION { HomeOutcomes(u) : u \in UrlInputs }

(***************************************************************************)
(* The quiz widget: component Quiz({ videoId }).                           *)
(***************************************************************************)
QuizVideoId == "v1"

Question(q, opts, correct) ==
    [question |-> q, options |-> opts, correctAnswer |-> correct]

\* the success body of <backend>/quiz; correctAnswer is an index from 0
QuizBody ==
    [questions |-> << Question("q1", << "x", "y" >>, 0),
                      Question("q2", << "x", "y" >>, 1) >>]
EmptyQuizBody == [questions |-> << >>]

QuizBackendAnswers ==
    { Http(200, QuizBody), Http(200, EmptyQuizBody) } \cup BackendErrors

\* what the browser may get from GET /api/quiz?videoId=<videoId>
QuizOutcomes ==
    { Rejected } \cup
    { Resolved(ProxyGET("quiz", Some(QuizVideoId), a)) : a \in QuizBackendAnswers }

\* questions[i] of JavaScript (i from 0): None when there is no such element
QuestionAt(i) ==
    IF questions /= None /\ i + 1 \in DOMAIN Get(questions)
    THEN Some(Get(questions)[i + 1])
    ELSE None

\* the render branches of Quiz.  The completed view reads questions.length
\* and the question view reads questions[currentQuestion].question: either
\* throws when there is nothing to read.
QuizView ==
    IF ~showQuiz THEN "button"
    ELSE IF quizCompleted
    THEN IF questions = None THEN "crash" ELSE "completed"
    ELSE IF QuestionAt(currentQuestion) = None THEN "crash" ELSE "question"

\* a fetchQuiz whose request goes out twice for one click
fetchQuiz_twice ==
    /\ \/ QuizView = "button" /\ ~quizIsLoading
       \/ QuizView = "completed"
    /\ quizFetches < MaxQuizInFlight
    /\ quizIsLoading' = TRUE
    /\ quizFetches' = quizFetches + 2
    /\ UNCHANGED << showQuiz, questions, currentQuestion, selectedAnswer, score,
                    quizCompleted >>
    /\ UNCHANGED offQuiz

\* fetchQuiz up to its `await fetch`, started by Take Quiz (disabled while
\* isLoading) or by Retake Quiz
fetchQuiz ==
    /\ \/ QuizView = "button" /\ ~quizIsLoading
       \/ QuizView = "completed"
    /\ quizFetches < MaxQuizInFlight
    /\ quizIsLoading' = TRUE
    /\ quizFetches' = quizFetches + 1
    /\ UNCHANGED << showQuiz, questions, currentQuestion, selectedAnswer, score,
                    quizCompleted >>
    /\ UNCHANGED offQuiz

\* data.questions
QuestionsOf(data) ==
    IF "questions" \in DOMAIN data THEN Some(data.questions) ELSE None

\* fetchQuiz clearing isLoading at the end of its try block only
FetchQuizSettled_noFinally(outcome) ==
    /\ IF outcome = Rejected
       THEN UNCHANGED << showQuiz, questions, currentQuestion, score, quizCompleted,
                         quizIsLoading >>
       ELSE /\ questions' = QuestionsOf(outcome.body)
            /\ showQuiz' = TRUE
            /\ currentQuestion' = 0
            /\ score' = 0
            /\ quizCompleted' = FALSE
            /\ quizIsLoading' = FALSE
    /\ UNCHANGED selectedAnswer

\* fetchQuiz from the point where its fetch has settled
FetchQuizSettled(outcome) ==
    /\ IF outcome = Rejected
       THEN UNCHANGED << showQuiz, questions, currentQuestion, score, quizCompleted >>
       ELSE /\ questions' = QuestionsOf(outcome.body)
            /\ showQuiz' = TRUE
            /\ currentQuestion' = 0
            /\ score' = 0
            /\ quizCompleted' = FALSE
    /\ quizIsLoading' = FALSE
    /\ UNCHANGED selectedAnswer

FetchQuizSettles(outcome) ==
    /\ QuizView /= "crash"
    /\ quizFetches > 0
    /\ outcome \in QuizOutcomes
    /\ FetchQuizSettled(outcome)
    /\ quizFetches' = quizFetches - 1
    /\ UNCHANGED offQuiz

handleAnswerSelect(index) ==
    /\ QuizView = "question"
    /\ index + 1 \in DOMAIN Get(QuestionAt(currentQuestion)).options
    /\ selectedAnswer' = Some(index)
    /\ UNCHANGED << showQuiz, questions, currentQuestion, score, quizCompleted,
                    quizIsLoading, quizFetches >>
    /\ UNCHANGED offQuiz

\* the button is rendered when selectedAnswer !== null
handleNextQuestion ==
    /\ QuizView = "question"
    /\ selectedAnswer /= None
    /\ score' = IF Get(selectedAnswer) = Get(QuestionAt(currentQuestion)).correctAnswer
                THEN score + 1
                ELSE score
    /\ IF currentQuestion < Len(Get(questions)) - 1
       THEN /\ currentQuestion' = currentQuestion + 1
            /\ selectedAnswer' = None
            /\ UNCHANGED quizCompleted
       ELSE /\ quizCompleted' = TRUE
            /\ UNCHANGED << currentQuestion, selectedAnswer >>
    /\ UNCHANGED << showQuiz, questions, quizIsLoading, quizFetches >>
    /\ UNCHANGED offQuiz

OptionIndexes == { 0, 1 }

(***************************************************************************)
(* SpecCodec: the two time encodings of the page applied to one start      *)
(* value after another, the value drawn from TimeInputs (in ms): the first *)
(* milliseconds, the values around one second and around the end of the    *)
(* first minute, and values at the borders of minutes and hours.           *)
(***************************************************************************)
TimeInputs ==
    (0..10) \cup (995..1130) \cup (59490..59510)
    \cup { 4350, 59999, 60000, 65000, 119500, 3599999, 3600000, 3661500,
           35999999, 36000000, 359999999, 360000001 }

Encode(ms) ==
    /\ encoded' = Some([ seconds |-> ms,
                          subtitle |-> formatTime(ms),
                          display |-> DisplayLabel(ms) ])
    /\ UNCHANGED offCodec

NextCodec == \E ms \in TimeInputs : Encode(ms)

SpecCodec == Init /\ [][NextCodec]_vars

(***************************************************************************)
(* The transcripts page as a whole.                                        *)
(***************************************************************************)
SearchParamValues == { None } \cup { Some(v) : v \in VideoIds }
Routes == { "transcript", "summary" }
EntryIndexes == UNION { DOMAIN BackendTranscript(v) : v \in VideoIds }
AllOutcomes(route) == UNION { Outcomes(route, v) : v \in VideoIds \cup { "" } }

\* nothing the page has sent is still under way
Idle == loads = << >> /\ summaryCall = None /\ inbox = << >>

(***************************************************************************)
(* Spec: every operation of the page.  The user changes the video only     *)
(* while the page is idle, so one fetchData is in flight at a time; all    *)
(* other operations interleave freely.                                     *)
(***************************************************************************)
Next ==
    \/ \E p \in SearchParamValues : Idle /\ UseEffect(p)
    \/ \E i \in 1..MaxInFlight, route \in Routes :
          \E outcome \in AllOutcomes(route) : FetchSettles(i, route, outcome)
    \/ FetchSummaryStart
    \/ \E outcome \in AllOutcomes("summary") : FetchSummarySettles(outcome)
    \/ \E i \in EntryIndexes, dom \in Doms : SeekToTime(i, dom)
    \/ \E obeys \in BOOLEAN : PlayerHandles(obeys)
    \/ \E t \in PlayerTimes : PlayerProgress(t)
    \/ copyToClipboard
    \/ \E format \in { "txt", "srt" } : downloadAsFile(format)
    \/ ToggleTimestamps

Spec == Init /\ [][Next]_vars

(***************************************************************************)
(* SpecRace: the page-load effect alone, the video changing at any time,   *)
(* so that up to MaxInFlight fetchData invocations race.                   *)
(***************************************************************************)
NextRace ==
    \/ \E p \in SearchParamValues : UseEffect(p)
    \/ \E i \in 1..MaxInFlight, route \in Routes :
          \E outcome \in AllOutcomes(route) : FetchSettles(i, route, outcome)

SpecRace == Init /\ [][NextRace]_vars

(***************************************************************************)
(* SpecFetch: everything of the front end that sends requests.  The user   *)
(* starts on the home page; router.push replaces it by the transcripts     *)
(* page, which loads the video pushed and offers fetchSummary; the quiz    *)
(* widget runs beside them.                                                *)
(***************************************************************************)
NextFetch ==
    \/ \E value \in UrlInputs : setUrl(value)
    \/ handleGetTranscript
    \/ \E outcome \in AllHomeOutcomes : HomeFetchSettles(outcome)
    \/ \E v \in VideoIds :
          pushed = Some(TranscriptsUrl(v)) /\ ~mounted /\ UseEffect(Some(v))
    \/ \E i \in 1..MaxInFlight, route \in Routes :
          \E outcome \in AllOutcomes(route) : FetchSettles(i, route, outcome)
    \/ FetchSummaryStart
    \/ \E outcome \in AllOutcomes("summary") : FetchSummarySettles(outcome)
    \/ fetchQuiz
    \/ \E outcome \in QuizOutcomes : FetchQuizSettles(outcome)
    \/ \E index \in OptionIndexes : handleAnswerSelect(index)
    \/ handleNextQuestion

SpecFetch == Init /\ [][NextFetch]_vars

(***************************************************************************)
(* SpecFetchFair: SpecFetch where every HTTP call eventually completes or  *)
(* fails: the browser settles each pending fetch, and the continuation of  *)
(* the async function that awaits it then runs.  Nothing is assumed of the *)
(* user: no button is ever bound to be pressed.                            *)
(***************************************************************************)
HomeCallEnds == \E outcome \in AllHomeOutcomes : HomeFetchSettles(outcome)
PageCallEnds ==
    \E i \in 1..MaxInFlight, route \in Routes :
       \E outcome \in AllOutcomes(route) : FetchSettles(i, route, outcome)
SummaryCallEnds == \E outcome \in AllOutcomes("summary") : FetchSummarySettles(outcome)
QuizCallEnds == \E outcome \in QuizOutcomes : FetchQuizSettles(outcome)

SpecFetchFair ==
    /\ Init /\ [][NextFetch]_vars
    /\ WF_vars(HomeCallEnds)
    /\ WF_vars(PageCallEnds)
    /\ WF_vars(SummaryCallEnds)
    /\ WF_vars(QuizCallEnds)

(***************************************************************************)
(* SpecExport: the page opened once on a video of ExportVideoIds, and its  *)
(* copy and download buttons.                                              *)
(***************************************************************************)
AllExportOutcomes(route) == UNION { Outcomes(route, v) : v \in ExportVideoIds }

NextExport ==
    \/ \E v \in ExportVideoIds : ~mounted /\ UseEffect(Some(v))
    \/ \E i \in 1..MaxInFlight, route \in Routes :
          \E outcome \in AllExportOutcomes(route) : FetchSettles(i, route, outcome)
    \/ copyToClipboard
    \/ \E format \in { "txt", "srt" } : downloadAsFile(format)
    \/ ToggleTimestamps

SpecExport == Init /\ [][NextExport]_vars

(***************************************************************************)
(* Vocabulary of the properties.                                           *)
(***************************************************************************)
\* a request failed: no response at all, or a non-success HTTP status
Failed(result) ==
    result = Rejected \/ (result.st = "resolved" /\ ~Ok(result.status))

Succeeded(result) == result.st = "resolved" /\ Ok(result.status)

\* the i-th fetchData in flight once its request `route` has settled
LoadAfter(i, route, outcome) == [loads[i] EXCEPT ![route] = outcome]

\* both requests of the load have settled
Complete(load) == load.transcript /= Pending /\ load.summary /= Pending

\* fetchData passes its await in this step and runs to its end
Ends(load, route, outcome) ==
    /\ load[Other(route)] /= Rejected
    /\ outcome = Rejected \/ Complete(load)

\* the page holds neither a document nor an error yet (its first load)
Fresh == transcriptData = None /\ error = None

\* transcriptData holds a document: a video_id and a transcript sequence
HoldsDocument ==
    /\ transcriptData /= None
    /\ { "video_id", "transcript" } \subseteq DOMAIN Get(transcriptData)

\* an error message is on the screen: the error view of the page, or the
\* inline message of the summary section
ErrorVisible ==
    \/ View = "error"
    \/ View = "main" /\ ~isSummaryLoading /\ Truthy(summaryError)

(***************************************************************************)
(* C1.  When exactly one of the two parallel requests of a page load fails *)
(* and the other succeeds, the page still renders the successful half: the *)
(* fetched transcript is stored and shown although the summary failed, and *)
(* the fetched summary is kept although the transcript failed.  Stated for *)
(* the first load of a page, where no earlier error can be on the screen.  *)
(***************************************************************************)
C1_SuccessfulHalfRendered ==
    [][ \A i \in 1..MaxInFlight, route \in Routes :
          \A outcome \in AllOutcomes(route) :
            ( /\ FetchSettles(i, route, outcome)
              /\ Fresh
              /\ Complete(LoadAfter(i, route, outcome)) )
            => LET load == LoadAfter(i, route, outcome)
               IN  /\ ( Succeeded(load.transcript) /\ Failed(load.summary) )
                        => ( /\ transcriptData' = Some(load.transcript.body)
                             /\ View' = "main" )
                   /\ ( Succeeded(load.summary) /\ Failed(load.transcript) )
                        => ( /\ summaryData' = Some(load.summary.body)
                             /\ ~Crashed' )
      ]_vars

(***************************************************************************)
(* C2.  The transcript fetch of a page load ends in exactly one of two     *)
(* outcomes: transcriptData holds a document, or error holds a message.    *)
(* When /api/transcript answers with a non-success status, error holds the *)
(* message of the body's error field and the body is not stored as         *)
(* transcriptData.  Stated for the first load of a page.                   *)
(***************************************************************************)
C2_DocumentOrError ==
    [][ \A i \in 1..MaxInFlight, route \in Routes :
          \A outcome \in AllOutcomes(route) :
            ( /\ FetchSettles(i, route, outcome)
              /\ Fresh
              /\ Ends(LoadAfter(i, route, outcome), route, outcome) )
            => LET load == LoadAfter(i, route, outcome)
               IN  /\ HoldsDocument' /= Truthy(error)'
                   /\ ( load.transcript.st = "resolved" /\ ~Ok(load.transcript.status) )
                        => ( /\ error' = Some(load.transcript.body.error)
                             /\ transcriptData' /= Some(load.transcript.body) )
      ]_vars

(***************************************************************************)
(* C3.  A failed fetchSummary, by transport error or by a non-success      *)
(* response of /api/summary, leaves summaryData and transcriptData as they *)
(* were before the call.                                                   *)
(***************************************************************************)
C3_FailedSummaryKeepsState ==
    [][ \A outcome \in AllOutcomes("summary") :
          ( FetchSummarySettles(outcome) /\ Failed(outcome) )
          => ( summaryData' = summaryData /\ transcriptData' = transcriptData )
      ]_vars

(***************************************************************************)
(* C4.  Every failed fetch of the page leads to a state in which an error  *)
(* message is visible: once a fetchData with a failed request has ended,   *)
(* and once a failed fetchSummary has ended, a message is on the screen.   *)
(***************************************************************************)
C4_FailureIsVisible ==
    [][ /\ \A i \in 1..MaxInFlight, route \in Routes :
             \A outcome \in AllOutcomes(route) :
               ( /\ FetchSettles(i, route, outcome)
                 /\ Ends(LoadAfter(i, route, outcome), route, outcome)
                 /\ \/ Failed(LoadAfter(i, route, outcome).transcript)
                    \/ Failed(LoadAfter(i, route, outcome).summary) )
               => ErrorVisible'
        /\ \A outcome \in AllOutcomes("summary") :
             ( FetchSummarySettles(outcome) /\ Failed(outcome) ) => ErrorVisible'
      ]_vars

(***************************************************************************)
(* C5.  Requests are never cancelled: when a fetchData whose videoId is no *)
(* longer the one of the search params gets its two responses, they are    *)
(* still written to transcriptData and summaryData, so the page then holds *)
(* the document of the older videoId.                                      *)
(***************************************************************************)
C5_StaleResponseIsWritten ==
    [][ \A i \in 1..MaxInFlight, route \in Routes :
          \A outcome \in AllOutcomes(route) :
            ( /\ FetchSettles(i, route, outcome)
              /\ Some(loads[i].videoId) /= searchParams
              /\ outcome /= Rejected
              /\ loads[i][Other(route)].st = "resolved" )
            => ( /\ transcriptData' = Some(LoadAfter(i, route, outcome).transcript.body)
                 /\ summaryData' = Some(LoadAfter(i, route, outcome).summary.body) )
      ]_vars

\* The load of the current videoId ended without an error and nothing is in
\* flight, yet the page holds the document of the other video: the older
\* response arrived last.
C5_Witness ==
    /\ loads = << >>
    /\ error = None
    /\ \E v \in VideoIds :
         /\ searchParams = Some(v)
         /\ HoldsDocument
         /\ Get(transcriptData).video_id /= v

(***************************************************************************)
(* C6 as claimed.  After a selection the selected entry is active and      *)
(* every other entry of the document is not, also in a document where      *)
(* several entries share a start value.                                    *)
(***************************************************************************)
C6_OnlySelectedEntryActive ==
    [][ \A i \in EntryIndexes, dom \in Doms :
          SeekToTime(i, dom)
          => \A j \in DOMAIN Entries : isActive(Entries[j])' <=> (j = i)
      ]_vars

(***************************************************************************)
(* C6, amended.  After a selection the selected entry is active, and an    *)
(* entry of the document is active exactly when its start equals the start *)
(* of the selected entry: entries with another start are not active,       *)
(* entries sharing the start are highlighted together with it.             *)
(***************************************************************************)
C6_EntriesWithSelectedStartActive ==
    [][ \A i \in EntryIndexes, dom \in Doms :
          SeekToTime(i, dom)
          => \A j \in DOMAIN Entries :
               isActive(Entries[j])' <=> (Entries[j].start = Entries[i].start)
      ]_vars

\* after a selection, two entries are active and a third is not
C6_Witness ==
    /\ seekCalls /= << >>
    /\ \E j, k, m \in DOMAIN Entries :
         /\ j /= k
         /\ isActive(Entries[j])
         /\ isActive(Entries[k])
         /\ ~isActive(Entries[m])

(***************************************************************************)
(* C7.  The active-entry state is reset whenever a new document is loaded: *)
(* when transcriptData is replaced, activeTimestamp is null afterwards, so *)
(* no entry of the new document is highlighted before a selection.         *)
(***************************************************************************)
C7_ActiveResetOnNewDocument ==
    [][ transcriptData' /= transcriptData => activeTimestamp' = None ]_vars

(***************************************************************************)
(* C8 as claimed.  In every execution of seekToTime the seek command is    *)
(* posted to the player first and the active-entry state is set afterwards.*)
(***************************************************************************)
C8_SeekBeforeHighlight ==
    seekCalls /= << >>
    => \E m, n \in DOMAIN seekCalls :
         /\ m < n
         /\ seekCalls[m].call = "postMessage"
         /\ seekCalls[n].call = "setActiveTimestamp"

(***************************************************************************)
(* C8, amended.  Every execution of seekToTime(s) first calls              *)
(* setActiveTimestamp(s); the seek command for s is posted after it, once, *)
(* and only when an iframe with a content window exists.  The highlight    *)
(* update never follows the seek.                                          *)
(***************************************************************************)
C8_HighlightBeforeSeek ==
    seekCalls /= << >>
    => /\ seekCalls[1].call = "setActiveTimestamp"
       /\ \A n \in DOMAIN seekCalls :
            n > 1 => seekCalls[n] = Call("postMessage", SeekMessage(seekCalls[1].arg))
       /\ Len(seekCalls) <= 2

\* a selection whose seek command was posted
C8_Witness ==
    /\ Len(seekCalls) = 2
    /\ seekCalls[2].call = "postMessage"
    /\ activeTimestamp = Some(seekCalls[1].arg)

(***************************************************************************)
(* C9.  Selecting an entry sets the active-entry state to the start of     *)
(* that entry whether or not the seek command can be delivered (no iframe, *)
(* no content window, or a player that ignores the message), and the page  *)
(* raises no error: it stays on its main view with error untouched.        *)
(***************************************************************************)
C9_HighlightWithoutPlayer ==
    [][ \A i \in EntryIndexes, dom \in Doms :
          SeekToTime(i, dom)
          => /\ activeTimestamp' = Some(Entries[i].start)
             /\ error' = error
             /\ View' = "main"
      ]_vars

\* a selection that posted nothing, with the entry highlighted all the same
C9_Witness ==
    /\ Len(seekCalls) = 1
    /\ inbox = << >>
    /\ \E j \in DOMAIN Entries :
         /\ Entries[j].start = seekCalls[1].arg
         /\ isActive(Entries[j])

(***************************************************************************)
(* C10.  Only a selection (seekToTime) changes the active-entry state:     *)
(* the page-load effect, the completion of any fetch, fetchSummary, copy,  *)
(* download, the timestamps toggle and whatever the player does leave      *)
(* activeTimestamp unchanged.                                              *)
(***************************************************************************)
C10_OnlySelectionChangesActive ==
    [][ activeTimestamp' /= activeTimestamp
        => \E i \in EntryIndexes, dom \in Doms : SeekToTime(i, dom)
      ]_vars

\* an entry is highlighted while the player has played on to another
\* position, a file was exported and the timestamps toggle was used
C10_Witness ==
    /\ activeTimestamp = Some(0)
    /\ playerTime = 1000
    /\ inbox = << >>
    /\ exported /= None
    /\ ~includeTimestamps
    /\ HasSummary

(***************************************************************************)
(* C11.  The combined view of the transcripts page is never rendered while *)
(* the transcript request or the summary request of a page load is still   *)
(* in flight: as long as one of the two is pending the page is not on its  *)
(* main view.                                                              *)
(***************************************************************************)
\* a request of some fetchData is still in flight
AwaitingResponse == \E i \in DOMAIN loads : ~Complete(loads[i])

C11_NoCombinedViewWhileInFlight == AwaitingResponse => View /= "main"

(***************************************************************************)
(* Vocabulary of the proxy properties.                                     *)
(***************************************************************************)
\* the handler has returned from the request it received
ProxyDone == proxyRequest /= None /\ ~proxyAwaiting

\* the backend answered the handler's fetch with an HTTP response
BackendResponded == backendAnswer /= None /\ Get(backendAnswer).kind = "http"

\* the body of the backend's response is a JSON object
IsJsonObject(body) == body /= NotJson /\ body /= JsonNull

\* {error: <detail of the body>}, or the default message of the route when
\* the body has no detail or an empty one
ErrorBodyFor(route, body) ==
    IF "detail" \in DOMAIN body /\ body.detail /= ""
    THEN [error |-> body.detail]
    ELSE [error |-> DefaultErrorMessage(route)]

(***************************************************************************)
(* C12 as claimed.  Each proxy route answers with exactly the HTTP status  *)
(* the backend returned, for every backend status; for a non-success       *)
(* status the body is {error: <backend detail>} (or the route's default    *)
(* message when detail is absent).                                         *)
(***************************************************************************)
C12_StatusPassedThrough ==
    ( ProxyDone /\ BackendResponded )
    => LET answer == Get(backendAnswer)
           returned == proxyReturned[1]
       IN  /\ Len(proxyReturned) = 1
           /\ returned.status = answer.status
           /\ ~Ok(answer.status)
                => returned.body = ErrorBodyFor(Get(proxyRequest).route, answer.body)

(***************************************************************************)
(* C12, amended.  A backend response of non-success status whose body is a *)
(* JSON object is answered with exactly that status and the body           *)
(* {error: <detail>} (the route's default message when detail is absent or *)
(* empty); a backend response of success status whose body is JSON is      *)
(* answered with status 200, whatever the success status was, and with the *)
(* backend's body unchanged.                                               *)
(***************************************************************************)
C12_ErrorStatusPassedThrough ==
    ( ProxyDone /\ BackendResponded )
    => LET answer == Get(backendAnswer)
           returned == proxyReturned[1]
       IN  /\ Len(proxyReturned) = 1
           /\ ( ~Ok(answer.status) /\ IsJsonObject(answer.body) )
                => /\ returned.status = answer.status
                   /\ returned.body = ErrorBodyFor(Get(proxyRequest).route, answer.body)
           /\ ( Ok(answer.status) /\ answer.body /= NotJson )
                => /\ returned.status = 200
                   /\ returned.body = answer.body

\* the quiz route has passed on a 404 of the backend with its detail
C12_Witness ==
    /\ ProxyDone
    /\ Get(proxyRequest).route = "quiz"
    /\ backendAnswer = Some(Http(404, [detail |-> "Video unavailable"]))
    /\ proxyReturned = << Response(404, [error |-> "Video unavailable"]) >>

(***************************************************************************)
(* C13.  A proxy request whose required query parameter is absent or empty *)
(* (url for /api/transcript and /api/summary, videoId for /api/quiz) is    *)
(* answered with HTTP 400 and a body with an error field, and no request   *)
(* is sent to the backend for it.                                          *)
(***************************************************************************)
C13_MissingParameterIs400 ==
    ( /\ proxyRequest /= None
      /\ Get(proxyRequest).param \in { None, Some("") } )
    => /\ ~proxyAwaiting
       /\ backendRequests = << >>
       /\ Len(proxyReturned) = 1
       /\ "status" \in DOMAIN proxyReturned[1]
       /\ proxyReturned[1].status = 400
       /\ "error" \in DOMAIN proxyReturned[1].body

\* /api/quiz without a videoId, answered 400 with nothing sent to the backend
C13_Witness ==
    /\ proxyRequest = Some([route |-> "quiz", param |-> None])
    /\ proxyReturned = << Response(400, [error |-> "Video ID is required"]) >>
    /\ backendRequests = << >>

(***************************************************************************)
(* C14.  Every proxy handler returns exactly one response on every path    *)
(* and never throws: nothing is returned while it waits for the backend,   *)
(* one response and no exception once it is done, and when the backend     *)
(* could not be reached or its body could not be read as JSON that         *)
(* response has status 500 and a body with an error field.                 *)
(***************************************************************************)
C14_OneResponseNeverThrows ==
    /\ proxyAwaiting => proxyReturned = << >>
    /\ ProxyDone
         => /\ Len(proxyReturned) = 1
            /\ "thrown" \notin DOMAIN proxyReturned[1]
            /\ "status" \in DOMAIN proxyReturned[1]
            /\ ( /\ backendAnswer /= None
                 /\ \/ Get(backendAnswer).kind = "unreachable"
                    \/ Get(backendAnswer).body = NotJson )
                 => /\ proxyReturned[1].status = 500
                    /\ "error" \in DOMAIN proxyReturned[1].body

\* the backend answered /api/summary with a body that is not JSON
C14_Witness ==
    /\ ProxyDone
    /\ Get(proxyRequest).route = "summary"
    /\ backendAnswer = Some(Http(200, NotJson))
    /\ proxyReturned = << Response(500, [error |-> "Internal server error"]) >>

(***************************************************************************)
(* Vocabulary of the request properties.                                   *)
(***************************************************************************)
\* the number of elements of a sequence of loads whose request is pending
RECURSIVE PendingIn(_, _)
PendingIn(seq, route) ==
    IF seq = << >> THEN 0
    ELSE ( IF Head(seq)[route] = Pending THEN 1 ELSE 0 ) + PendingIn(Tail(seq), route)

\* the requests in flight to each endpoint, from every part of the front end
InFlight ==
    [ transcript |-> ( IF homeFetch /= None THEN 1 ELSE 0 )
                     + PendingIn(loads, "transcript"),
      summary |-> PendingIn(loads, "summary")
                  + ( IF summaryCall /= None THEN 1 ELSE 0 ),
      quiz |-> quizFetches ]

\* the string is empty or consists of white space only
Blank(str) == \A k \in 1..Len(str) : IsSpace(SubSeq(str, k, k))

(***************************************************************************)
(* C15.  Nothing is retried automatically.  Each user trigger sends        *)
(* exactly one request per endpoint: a home form submit one transcript     *)
(* request, a page load with a videoId one transcript and one summary      *)
(* request, a Generate/Regenerate/Try Again click one summary request, a   *)
(* Take/Retake click one quiz request.  The end of a request, failed or    *)
(* not, only takes that request out of flight, and no other step sends     *)
(* anything: a new request appears only with a new trigger.                *)
(***************************************************************************)
C15_OneRequestPerTrigger ==
    [][ LET sent == [ e \in ProxyRoutes |-> InFlight'[e] - InFlight[e] ]
        IN  /\ ( handleGetTranscript /\ ~Blank(url) )
                 => sent = [transcript |-> 1, summary |-> 0, quiz |-> 0]
            /\ ( \E v \in VideoIds : UseEffect(Some(v)) )
                 => sent = [transcript |-> 1, summary |-> 1, quiz |-> 0]
            /\ FetchSummaryStart
                 => sent = [transcript |-> 0, summary |-> 1, quiz |-> 0]
            /\ fetchQuiz
                 => sent = [transcript |-> 0, summary |-> 0, quiz |-> 1]
            /\ ( \E outcome \in AllHomeOutcomes : HomeFetchSettles(outcome) )
                 => sent = [transcript |-> -1, summary |-> 0, quiz |-> 0]
            /\ \A i \in 1..MaxInFlight, route \in Routes :
                 ( \E outcome \in AllOutcomes(route) : FetchSettles(i, route, outcome) )
                 => sent = [ e \in ProxyRoutes |-> IF e = route THEN -1 ELSE 0 ]
            /\ ( \E outcome \in AllOutcomes("summary") : FetchSummarySettles(outcome) )
                 => sent = [transcript |-> 0, summary |-> -1, quiz |-> 0]
            /\ ( \E outcome \in QuizOutcomes : FetchQuizSettles(outcome) )
                 => sent = [transcript |-> 0, summary |-> 0, quiz |-> -1]
            /\ ( \/ \E value \in UrlInputs : setUrl(value)
                 \/ handleGetTranscript /\ Blank(url)
                 \/ \E index \in OptionIndexes : handleAnswerSelect(index)
                 \/ handleNextQuestion )
                 => sent = [transcript |-> 0, summary |-> 0, quiz |-> 0]
      ]_vars

\* the page was reached from the home form and loaded, a fetchSummary has
\* failed since, and nothing is in flight: no request followed the failure
C15_Witness ==
    /\ InFlight = [transcript |-> 0, summary |-> 0, quiz |-> 0]
    /\ pushed /= None
    /\ View = "main"
    /\ summaryError = Some(NetworkErrorMessage)
    /\ ~showQuiz
    /\ ~quizIsLoading
    /\ ~isLoading

(***************************************************************************)
(* C16.  On the home page, submitting an empty or whitespace-only URL      *)
(* sends no request and changes no state: url, isLoading, error, the       *)
(* requests in flight and the navigation are untouched.                    *)
(***************************************************************************)
C16_BlankSubmitChangesNothing ==
    [][ ( handleGetTranscript /\ Blank(url) )
        => /\ UNCHANGED << url, homeIsLoading, homeError, homeFetch, pushed >>
           /\ InFlight' = InFlight
      ]_vars

\* the form handler has run on a field of white space only, and the page
\* is as it was after its first render
C16_Witness ==
    /\ formEvent /= None
    /\ url = "\t "
    /\ ~homeIsLoading
    /\ homeError = None
    /\ homeFetch = None
    /\ pushed = None

(***************************************************************************)
(* C17.  On the home page a submit with a non-empty URL ends in exactly    *)
(* one of two outcomes.  On a success response the app navigates to        *)
(* /transcripts?videoId=<video_id of the response> and error stays null.   *)
(* On a non-success response or a transport failure no navigation happens  *)
(* and error is set to the body's error field (default 'Failed to fetch    *)
(* transcript') or to the exception message.                               *)
(***************************************************************************)
C17_NavigateOrError ==
    [][ \A outcome \in AllHomeOutcomes :
          HomeFetchSettles(outcome)
          => /\ ( pushed' /= None ) /= ( homeError' /= None )
             /\ Succeeded(outcome)
                  => /\ pushed' = Some("/transcripts?videoId=" \o outcome.body.video_id)
                     /\ homeError' = None
             /\ ( outcome /= Rejected /\ ~Ok(outcome.status) )
                  => /\ pushed' = None
                     /\ homeError' =
                          Some(IF "error" \in DOMAIN outcome.body
                               THEN outcome.body.error
                               ELSE "Failed to fetch transcript")
             /\ outcome = Rejected
                  => /\ pushed' = None
                     /\ homeError' = Some(NetworkErrorMessage)
      ]_vars

\* a submit was answered with the document of v1: the app has navigated to
\* the transcripts page of v1 and shows no error
C17_Witness ==
    /\ pushed = Some("/transcripts?videoId=v1")
    /\ homeError = None
    /\ ~homeIsLoading
    /\ homeFetch = None
    /\ formEvent /= None

(***************************************************************************)
(* Vocabulary of the encoding properties.                                  *)
(***************************************************************************)
\* the decimal digits of n, with zeros in front up to two and three digits
TwoDigits(n) == IF n < 10 THEN "0" \o ToString(n) ELSE ToString(n)
ThreeDigits(n) == IF n < 100 THEN "0" \o TwoDigits(n) ELSE ToString(n)

\* HH:MM:SS,mmm
Stamp(hh, mm, ss, mmm) ==
    TwoDigits(hh) \o ":" \o TwoDigits(mm) \o ":" \o TwoDigits(ss) \o "," \o
    ThreeDigits(mmm)

\* the fields of a time of ms milliseconds, in exact arithmetic
HoursOf(ms) == ms \div 3600000
MinutesOf(ms) == (ms % 3600000) \div 60000
SecondsOf(ms) == (ms % 60000) \div 1000
MillisOf(ms) == ms % 1000

(***************************************************************************)
(* C18 as claimed.  For every non-negative time s at millisecond           *)
(* granularity formatTime(s) is HH:MM:SS,mmm with hours = floor(s/3600),   *)
(* minutes = floor((s mod 3600)/60), seconds = floor(s mod 60) and         *)
(* millis = floor((s mod 1)*1000), that is the milliseconds of s.          *)
(***************************************************************************)
C18_SubtitleEncodingExact ==
    encoded /= None
    => LET ms == Get(encoded).seconds
       IN  Get(encoded).subtitle =
             Stamp(HoursOf(ms), MinutesOf(ms), SecondsOf(ms), MillisOf(ms))

(***************************************************************************)
(* C18, amended.  The hours, minutes and seconds fields are as claimed,    *)
(* minutes and seconds within 00..59.  The millis field is within 000..999 *)
(* and is the number of milliseconds of s or one less than it: the         *)
(* product (s mod 1)*1000 is evaluated on doubles and may fall just below  *)
(* the whole number before it is floored (1.001 gives 00:00:01,000).  It   *)
(* is exact below one second and for whole and half seconds (3661.5 gives  *)
(* 01:01:01,500).                                                          *)
(***************************************************************************)
C18_SubtitleEncodingUpToOneMilli ==
    encoded /= None
    => LET ms == Get(encoded).seconds
           exact == Stamp(HoursOf(ms), MinutesOf(ms), SecondsOf(ms), MillisOf(ms))
           oneLess == Stamp(HoursOf(ms), MinutesOf(ms), SecondsOf(ms), MillisOf(ms) - 1)
       IN  /\ MinutesOf(ms) \in 0..59 /\ SecondsOf(ms) \in 0..59
           /\ \/ Get(encoded).subtitle = exact
              \/ MillisOf(ms) >= 1 /\ Get(encoded).subtitle = oneLess
           /\ ( ms < 1000 \/ ms % 500 = 0 ) => Get(encoded).subtitle = exact

\* 3661.5 s is encoded as 01:01:01,500
C18_Witness ==
    /\ encoded /= None
    /\ Get(encoded).seconds = 3661500
    /\ Get(encoded).subtitle = "01:01:01,500"

(***************************************************************************)
(* C19.  For every non-negative entry start s the label on the screen is   *)
(* M:SS with M = floor(s/60) unpadded and SS a seconds field of two digits *)
(* within 00..59: the label never shows a seconds field of 60.             *)
(***************************************************************************)
C19_LabelSecondsBelow60 ==
    encoded /= None
    => \E ss \in 0..59 :
         Get(encoded).display =
           ToString(Get(encoded).seconds \div 60000) \o ":" \o TwoDigits(ss)

(***************************************************************************)
(* Vocabulary of the export properties.                                    *)
(***************************************************************************)
\* the lines of a sequence of strings, joined by single newlines
RECURSIVE Lines(_)
Lines(strs) ==
    IF strs = << >> THEN ""
    ELSE IF Tail(strs) = << >> THEN Head(strs)
    ELSE Head(strs) \o "\n" \o Lines(Tail(strs))

\* M:SS, the display style: minutes unpadded, seconds of the minute
DisplayStyle(ms) == ToString(ms \div 60000) \o ":" \o TwoDigits(SecondsOf(ms))

\* HH:MM:SS,mmm, the subtitle style
SubtitleStyle(ms) == Stamp(HoursOf(ms), MinutesOf(ms), SecondsOf(ms), MillisOf(ms))

(***************************************************************************)
(* C20 as claimed.  TXT export with includeTimestamps = true produces, for *)
(* each entry in document order, the line "[" + display-style encoding of  *)
(* entry.start (M:SS) + "] " + entry.text, the lines joined by newline.    *)
(***************************************************************************)
C20_TxtLinesInDisplayStyle ==
    [][ ( downloadAsFile("txt") /\ includeTimestamps )
        => Get(exported').content =
             Lines([ k \in DOMAIN Entries |->
                       "[" \o DisplayStyle(Entries[k].start) \o "] " \o Entries[k].text ])
      ]_vars

(***************************************************************************)
(* C20, amended.  TXT export with includeTimestamps = true produces, for   *)
(* each entry in document order, the line "[" + subtitle-style encoding of *)
(* entry.start (HH:MM:SS,mmm, as formatTime gives it) + "] " + entry.text, *)
(* the lines joined by newline.                                            *)
(***************************************************************************)
C20_TxtLinesInSubtitleStyle ==
    [][ ( downloadAsFile("txt") /\ includeTimestamps )
        => Get(exported').content =
             Lines([ k \in DOMAIN Entries |->
                       "[" \o SubtitleStyle(Entries[k].start) \o "] " \o Entries[k].text ])
      ]_vars

\* the TXT file of video v1, exported with timestamps
C20_Witness ==
    /\ exported /= None
    /\ Get(exported).channel = "download"
    /\ Get(exported).filename = "transcript_v1.txt"
    /\ Get(exported).content =
         "[00:00:00,000] a\n[00:00:00,000] b\n[00:00:01,000] c"

(***************************************************************************)
(* Vocabulary of the properties of exported files: a file read back line   *)
(* by line.                                                                *)
(***************************************************************************)
\* the position of the first newline of str at or after position i, or 0
RECURSIVE NewlineFrom(_, _)
NewlineFrom(str, i) ==
    IF i > Len(str) THEN 0
    ELSE IF SubSeq(str, i, i) = "\n" THEN i
    ELSE NewlineFrom(str, i + 1)

\* str cut at its newlines: one more piece than it has newlines
RECURSIVE SplitLines(_)
SplitLines(str) ==
    LET n == NewlineFrom(str, 1)
    IN  IF n = 0 THEN << str >>
        ELSE << SubSeq(str, 1, n - 1) >> \o SplitLines(SubSeq(str, n + 1, Len(str)))

\* the file offered by the last download, line by line
FileLines == SplitLines(Get(exported).content)

\* an SRT file has been offered for download
SrtOffered ==
    /\ exported /= None
    /\ Get(exported).channel = "download"
    /\ Get(exported).filename = "transcript_" \o VideoIdOrEmpty \o ".srt"

(***************************************************************************)
(* C21.  An SRT export of N entries consists of exactly N blocks in        *)
(* document order: block k (from 1) starts with the line k and carries the *)
(* text of the k-th entry of the document, whatever the start values are.  *)
(* Read back line by line the file is, for each k, the index line, the     *)
(* time line, the text line and an empty line; a file of no entry is empty.*)
(***************************************************************************)
C21_SrtBlocksInDocumentOrder ==
    SrtOffered
    => LET N == Len(Entries)
       IN  /\ N = 0 => Get(exported).content = ""
           /\ N > 0 => Len(FileLines) = 4 * N
           /\ \A k \in 1..N :
                /\ FileLines[4 * k - 3] = ToString(k)
                /\ FileLines[4 * k - 1] = Entries[k].text
                /\ FileLines[4 * k] = ""

\* video v3 holds a at 5 s before b at 2 s: block 1 of its SRT file is a
C21_Witness ==
    /\ SrtOffered
    /\ VideoIdOrEmpty = "v3"
    /\ FileLines[1] = "1" /\ FileLines[3] = "a"
    /\ FileLines[5] = "2" /\ FileLines[7] = "b"

(***************************************************************************)
(* Vocabulary: a stamp HH:MM:SS,mmm read back as a number of milliseconds. *)
(***************************************************************************)
DigitOf(c) ==
    CASE c = "0" -> 0 [] c = "1" -> 1 [] c = "2" -> 2 [] c = "3" -> 3
      [] c = "4" -> 4 [] c = "5" -> 5 [] c = "6" -> 6 [] c = "7" -> 7
      [] c = "8" -> 8 [] c = "9" -> 9

\* the number written by a string of decimal digits
RECURSIVE NumberOf(_)
NumberOf(str) ==
    IF str = "" THEN 0
    ELSE 10 * NumberOf(SubSeq(str, 1, Len(str) - 1)) + DigitOf(SubSeq(str, Len(str), Len(str)))

\* the time a stamp of twelve characters stands for
StampValue(stamp) ==
    NumberOf(SubSeq(stamp, 1, 2)) * 3600000 + NumberOf(SubSeq(stamp, 4, 5)) * 60000
    + NumberOf(SubSeq(stamp, 7, 8)) * 1000 + NumberOf(SubSeq(stamp, 10, 12))

\* the two stamps of a time line "<start> --> <end>"
StartStamp(line) == SubSeq(line, 1, 12)
EndStamp(line) == SubSeq(line, 18, 29)

RECURSIVE SeparatorFrom(_, _, _)
SeparatorFrom(str, sep, i) ==
    IF i > Len(str) THEN 0
    ELSE IF SubSeq(str, i, i) = sep THEN i
    ELSE SeparatorFrom(str, sep, i + 1)

\* the pieces of str between its separators; no piece for the empty text
RECURSIVE Pieces(_, _)
Pieces(str, sep) ==
    LET n == SeparatorFrom(str, sep, 1)
    IN  IF str = "" THEN << >>
        ELSE IF n = 0 THEN << str >>
        ELSE << SubSeq(str, 1, n - 1) >> \o
             ( IF n = Len(str) THEN << "" >>
               ELSE Pieces(SubSeq(str, n + 1, Len(str)), sep) )

\* the texts of the entries on the screen, in document order
Texts == [ k \in DOMAIN Entries |-> Entries[k].text ]

(***************************************************************************)
(* C23.  The clipboard text and the TXT export without timestamps both     *)
(* contain exactly the entry texts in document order and differ only in    *)
(* the separator: cut at single spaces the clipboard text gives the texts, *)
(* cut at newlines the file gives the texts, so neither starts or ends     *)
(* with a separator (the entry texts of the documents contain neither).    *)
(***************************************************************************)
C23_TextsInOrderBySeparator ==
    [][ /\ copyToClipboard => Pieces(Get(exported').text, " ") = Texts
        /\ ( downloadAsFile("txt") /\ ~includeTimestamps )
           => Pieces(Get(exported').content, "\n") = Texts
      ]_vars

\* the texts hi and there of video v6 are on the clipboard as "hi there"
C23_Witness ==
    /\ exported /= None
    /\ Get(exported).channel = "clipboard"
    /\ VideoIdOrEmpty = "v6"
    /\ Get(exported).text = "hi there"

(***************************************************************************)
(* C24.  Exporting a document without entries yields the empty string in   *)
(* every mode (clipboard, TXT with and without timestamps, SRT), and the   *)
(* export raises no error: the page still shows its main view afterwards.  *)
(***************************************************************************)
C24_EmptyDocumentExportsEmpty ==
    [][ ( View = "main" /\ Entries = << >> )
        => /\ copyToClipboard => Get(exported').text = "" /\ View' = "main"
           /\ \A format \in { "txt", "srt" } :
                downloadAsFile(format) => Get(exported').content = "" /\ View' = "main"
      ]_vars

\* the SRT file of video v4, which has no entries, is empty
C24_Witness ==
    /\ SrtOffered
    /\ VideoIdOrEmpty = "v4"
    /\ View = "main"
    /\ Get(transcriptData).transcript = << >>
    /\ Get(exported).content = ""

(***************************************************************************)
(* C25.  An entry whose start is negative is exported as if its start were *)
(* 0: its line of the TXT export with timestamps is "[00:00:00,000] " and  *)
(* its text, and the time line of its SRT block starts with 00:00:00,000.  *)
(***************************************************************************)
C25_NegativeStartExportedAsZero ==
    [][ \A k \in DOMAIN Entries :
          Entries[k].start < 0
          => /\ ( downloadAsFile("txt") /\ includeTimestamps )
                => SplitLines(Get(exported').content)[k] =
                     "[00:00:00,000] " \o Entries[k].text
             /\ downloadAsFile("srt")
                => StartStamp(SplitLines(Get(exported').content)[4 * k - 2]) =
                     "00:00:00,000"
      ]_vars

(***************************************************************************)
(* Vocabulary of the quiz properties.                                      *)
(***************************************************************************)
\* the response carries a list of questions: the request was successful
QuizSucceeded(outcome) ==
    /\ outcome /= Rejected
    /\ Ok(outcome.status)
    /\ "questions" \in DOMAIN outcome.body

\* the questions answered in the current attempt: those before the current
\* one, and the current one too once the quiz is completed
Answered == IF quizCompleted THEN currentQuestion + 1 ELSE currentQuestion

(***************************************************************************)
(* C26.  Whenever the quiz is shown and not completed there is a question  *)
(* to show: questions is a non-empty list and currentQuestion is an index  *)
(* of it, 0 <= currentQuestion < questions.length, whatever fetchQuiz      *)
(* completions, selections and Next clicks came before.                    *)
(***************************************************************************)
C26_ThereIsAQuestionToShow ==
    ( showQuiz /\ ~quizCompleted )
    => /\ questions /= None
       /\ Len(Get(questions)) > 0
       /\ currentQuestion >= 0
       /\ currentQuestion < Len(Get(questions))

(***************************************************************************)
(* C27.  Every successful fetchQuiz starts a fresh attempt: when its       *)
(* response has been handled currentQuestion = 0, score = 0, quizCompleted *)
(* is false and selectedAnswer is null, so that the Next button is not     *)
(* offered before an answer is picked in the new attempt.                  *)
(***************************************************************************)
C27_SuccessfulFetchStartsFresh ==
    [][ \A outcome \in QuizOutcomes :
          ( FetchQuizSettles(outcome) /\ QuizSucceeded(outcome) )
          => /\ currentQuestion' = 0
             /\ score' = 0
             /\ quizCompleted' = FALSE
             /\ selectedAnswer' = None
      ]_vars

(***************************************************************************)
(* C28.  In every reachable state of the quiz questions is a list and      *)
(* 0 <= score <= number of questions answered in the current attempt <=    *)
(* questions.length; and the score counts the answers that were right when *)
(* Next or Finish was pressed: such a press adds 1 to the score when the   *)
(* selected answer is the correctAnswer of the current question and        *)
(* nothing otherwise, a handled response sets it to 0, and no other step   *)
(* changes it.                                                             *)
(***************************************************************************)
C28_ScoreCountsRightAnswers ==
    /\ [] ( /\ questions /= None
            /\ 0 <= score
            /\ score <= Answered
            /\ Answered <= Len(Get(questions)) )
    /\ [][ /\ handleNextQuestion
              => score' = score +
                   ( IF selectedAnswer = Some(Get(QuestionAt(currentQuestion)).correctAnswer)
                     THEN 1 ELSE 0 )
           /\ ( \E outcome \in QuizOutcomes :
                  FetchQuizSettles(outcome) /\ outcome /= Rejected )
              => score' = 0
           /\ ~ ( handleNextQuestion
                  \/ \E outcome \in QuizOutcomes : FetchQuizSettles(outcome) )
              => score' = score
         ]_vars

(***************************************************************************)
(* C29.  At most one quiz request is in flight at any time: neither Take   *)
(* Quiz nor Retake Quiz starts a second request while one is pending.      *)
(***************************************************************************)
C29_OneQuizRequestInFlight == quizFetches <= 1

(***************************************************************************)
(* C30.  Every started request eventually clears its loading flag, on      *)
(* success and on failure alike, provided the HTTP call eventually         *)
(* completes or fails: isLoading of the home page, isLoading of the        *)
(* transcripts page once it is open, isSummaryLoading and isLoading of the *)
(* quiz each lead to the flag being false again, so no view stays on its   *)
(* spinner forever.                                                        *)
(***************************************************************************)
C30_LoadingFlagsAreCleared ==
    /\ homeIsLoading ~> ~homeIsLoading
    /\ ( mounted /\ isLoading ) ~> ~isLoading
    /\ isSummaryLoading ~> ~isSummaryLoading
    /\ quizIsLoading ~> ~quizIsLoading

\* all four requests have been made and have ended, the summary request in
\* failure: the home page has navigated, the transcript is on the screen,
\* the summary shows its error, the quiz is shown, and no flag is set
C30_Witness ==
    /\ pushed /= None /\ ~homeIsLoading
    /\ View = "main" /\ ~isLoading
    /\ summaryError /= None /\ ~isSummaryLoading /\ summaryCall = None
    /\ showQuiz /\ ~quizIsLoading /\ quizFetches = 0

=============================================================================
